---- MODULE Spec2Model ----
(***************************************************************************)
(* A model of backend/main.py, the Flask backend of the e-commerce         *)
(* application: users, products, cart lines, orders and order items, and   *)
(* the request handlers that read and write them.                          *)
(*                                                                         *)
(* Every call of sql() opens its own connection and runs one statement     *)
(* (main.py 36-45), so a statement is atomic and a handler is a sequence   *)
(* of statements: requests are served concurrently and other requests'     *)
(* statements may run between any two statements of a handler.  Each       *)
(* action below is one statement of one handler together with the local    *)
(* computation that follows it up to the next statement or the response.   *)
(* The handlers enforce uniqueness themselves (a SELECT before the         *)
(* INSERT); the tables are modelled as the statements use them, as sets    *)
(* of rows with a serial id.                                               *)
(***************************************************************************)
EXTENDS Integers, FiniteSets, Sequences, TLC

\* ------------------------------------------------------------- bounds
MaxUsers == 4
MaxOrders == 1
OneLine == 1
MaxLines == 2
MaxQuantity == 3
MaxTokens == 4
MaxClock == 30
MaxStatusOrders == 2

\* ------------------------------------------------------------- inputs
\* two requests are served at a time
Req == {1, 2}

EmailInputs == {"", "nomail", "a@x.io", "b@x.io"}
UsernameInputs == {"", "a", "b"}
PasswordInputs == {"", "pw"}
RoleInputs == {"customer"}

\* validate_email: the pattern local@domain.tld, evaluated on EmailInputs
validate_email(email) == email \in {"a@x.io", "b@x.io", "v@x.io"}

\* tokens are the tokens the server has signed and handed out (they live with
\* the clients, the server keeps none); now is the clock, in minutes
VARIABLES users, products, cart_items, orders, order_items, next_id,
          paypal_payments, paypal_client_id, tokens, now, req

vars == <<users, products, cart_items, orders, order_items, next_id,
          paypal_payments, paypal_client_id, tokens, now, req>>

db == <<users, products, cart_items, orders, order_items, next_id, paypal_payments>>

\* what no handler of the store writes: the configuration, the tokens, the clock
env == <<paypal_client_id, tokens, now>>

\* werkzeug's generate_password_hash and check_password_hash: a one-way image
\* of the password (the salt is left out)
generate_password_hash(password) == <<"hash", password>>

check_password_hash(hashed_password, password) ==
    hashed_password = generate_password_hash(password)

NoUser == [id |-> 0, email |-> "", username |-> "", role |-> "",
           hashed_password |-> <<>>]

Idle == [op |-> "none", pc |-> "idle", cur |-> NoUser, arg |-> <<>>,
         loc |-> <<>>, resp |-> "none"]

\* a handler's return: the response stays in the slot until it is released
Done(q, resp) == [Idle EXCEPT !.op = q.op, !.pc = "done", !.resp = resp]

\* requests are anonymous: a new one takes the lowest free slot
Free(r) == req[r].pc = "idle" /\ \A r2 \in Req : r2 < r => req[r2].pc # "idle"

Return(r) ==
    /\ req[r].pc = "done"
    /\ req' = [req EXCEPT ![r] = Idle]
    /\ UNCHANGED <<db, env>>

\* ------------------------------------------------------------- signup
\* lines 176-196: parse, validate, SELECT id FROM users WHERE email = $1
signup(r, email, username, password, role) ==
    /\ Free(r)
    /\ LET q == [Idle EXCEPT !.op = "signup",
                             !.arg = [email |-> email, username |-> username,
                                      password |-> password, role |-> role]]
       IN req' = [req EXCEPT ![r] =
            IF email = "" \/ username = "" \/ password = ""
            THEN Done(q, "ValidationError")
            ELSE IF ~validate_email(email)
            THEN Done(q, "ValidationError")
            ELSE IF \E u \in users : u.email = email
            THEN Done(q, "ConflictError")
            ELSE [q EXCEPT !.pc = "check_username"]]
    /\ UNCHANGED <<db, env>>

\* lines 198-201: SELECT id FROM users WHERE username = $1
signup_check_username(r) ==
    /\ req[r].op = "signup" /\ req[r].pc = "check_username"
    /\ req' = [req EXCEPT ![r] =
            IF \E u \in users : u.username = req[r].arg.username
            THEN Done(@, "ConflictError")
            ELSE [@ EXCEPT !.pc = "insert"]]
    /\ UNCHANGED <<db, env>>

\* lines 204-210: INSERT INTO users ... RETURNING id
signup_insert(r) ==
    /\ req[r].op = "signup" /\ req[r].pc = "insert"
    /\ users' = users \cup {[id |-> next_id.users, email |-> req[r].arg.email,
                             username |-> req[r].arg.username, role |-> req[r].arg.role,
                             hashed_password |->
                                 generate_password_hash(req[r].arg.password)]}
    /\ next_id' = [next_id EXCEPT !.users = @ + 1]
    /\ req' = [req EXCEPT ![r] = Done(@, "Created")]
    /\ UNCHANGED <<products, cart_items, orders, order_items, paypal_payments,
                   env>>

\* ------------------------------------------------------------- update_profile
ProfileFields == {"email", "username"}

FieldInputs(field) == IF field = "email" THEN EmailInputs ELSE UsernameInputs

\* the request body: a JSON object, its keys in the order sent
ProfileData ==
    {<<>>}
    \cup UNION {{<<[field |-> f, value |-> v]>> : v \in FieldInputs(f)} : f \in ProfileFields}
    \cup {<<[field |-> "email", value |-> e], [field |-> "username", value |-> n]>> :
             e \in EmailInputs \ {""}, n \in UsernameInputs \ {""}}

\* lines 312-316, 333-343: the loop up to its next statement.  q.loc.i is the
\* next key of the body; keys with an empty value are skipped (line 313)
profile_loop(q) ==
    LET fields == q.loc.fields
        i == q.loc.i
    IN IF i > Len(fields)
       THEN IF Len(fields) = 0 THEN Done(q, "OK") ELSE [q EXCEPT !.pc = "update"]
       ELSE IF fields[i].field = "email" /\ ~validate_email(fields[i].value)
       THEN Done(q, "ValidationError")
       ELSE [q EXCEPT !.pc = "check"]

\* lines 106-148, 297-316: token_required resolves the user row, then the
\* handler runs to its first statement
update_profile(r, u, data) ==
    /\ Free(r)
    /\ u \in users
    /\ LET q == [Idle EXCEPT !.op = "update_profile", !.cur = u,
                             !.loc = [fields |-> SelectSeq(data, LAMBDA p : p.value # ""),
                                      i |-> 1]]
       IN req' = [req EXCEPT ![r] = profile_loop(q)]
    /\ UNCHANGED <<db, env>>

\* lines 318-331: SELECT id FROM users WHERE <field> = $1 AND id != $2
update_profile_check(r) ==
    /\ req[r].op = "update_profile" /\ req[r].pc = "check"
    /\ LET q == req[r]
           f == q.loc.fields[q.loc.i]
           taken == IF f.field = "email"
                    THEN \E u \in users : u.email = f.value /\ u.id # q.cur.id
                    ELSE \E u \in users : u.username = f.value /\ u.id # q.cur.id
       IN req' = [req EXCEPT ![r] =
            IF taken THEN Done(q, "ConflictError")
            ELSE profile_loop([q EXCEPT !.loc.i = @ + 1])]
    /\ UNCHANGED <<db, env>>

\* the row with the SET clause built from the accepted fields applied
profile_set(u, fields) ==
    LET val(name, old) ==
            IF \E i \in 1..Len(fields) : fields[i].field = name
            THEN fields[CHOOSE i \in 1..Len(fields) : fields[i].field = name].value
            ELSE old
    IN [u EXCEPT !.email = val("email", u.email), !.username = val("username", u.username)]

\* lines 345-354: UPDATE users SET ... WHERE id = $n RETURNING *
update_profile_update(r) ==
    /\ req[r].op = "update_profile" /\ req[r].pc = "update"
    /\ users' = {IF u.id = req[r].cur.id THEN profile_set(u, req[r].loc.fields) ELSE u :
                   u \in users}
    /\ req' = [req EXCEPT ![r] = Done(@, "OK")]
    /\ UNCHANGED <<products, cart_items, orders, order_items, next_id, paypal_payments,
                   env>>

\* ------------------------------------------------------------- tokens
ACCESS_TOKEN_EXPIRE_MINUTES == 30
REFRESH_TOKEN_EXPIRE_DAYS == 7

\* line 60: the key the tokens are signed with
SECRET_KEY == "SECRET_KEY"

\* a request without an Authorization header, or without a refresh_token
NoToken == [sub |-> "", user_id |-> 0, exp |-> 0, key |-> ""]

\* lines 89-97: the claims of data and the expiry instant, signed
create_access_token(data, expires_delta) ==
    [sub |-> data.sub, user_id |-> data.user_id, exp |-> now + expires_delta,
     key |-> SECRET_KEY]

\* lines 99-104
create_refresh_token(data) ==
    [sub |-> data.sub, user_id |-> data.user_id,
     exp |-> now + REFRESH_TOKEN_EXPIRE_DAYS * 24 * 60, key |-> SECRET_KEY]

\* lines 230-237 and 269-276: the pair of tokens issued for a user row
token_pair(u) ==
    LET data == [sub |-> u.email, user_id |-> u.id]
    IN {create_access_token(data, ACCESS_TOKEN_EXPIRE_MINUTES), create_refresh_token(data)}

\* lines 122 and 255: jwt.decode verifies the signature, then the expiry
jwt_decode(token) ==
    IF token.key # SECRET_KEY THEN "InvalidTokenError"
    ELSE IF token.exp <= now THEN "ExpiredSignatureError"
    ELSE "ok"

\* the user looked up by the id alone
token_user_by_id(token) == {u \in users : u.id = token.user_id}

\* lines 134 and 265: SELECT * FROM users WHERE email = $1 AND id = $2
token_user(token) == {u \in users : u.email = token.sub /\ u.id = token.user_id}

\* lines 106-148: the guard of every authenticated handler
token_required(token) ==
    IF token = NoToken THEN "AuthError"
    ELSE IF jwt_decode(token) # "ok" THEN "AuthError"
    ELSE IF token.sub = "" \/ token.user_id = 0 THEN "AuthError"
    ELSE IF token_user(token) = {} THEN "AuthError"
    ELSE "OK"

\* lines 138, 147: the rows the guard hands to the handler as current_user
current_user(token) == IF token_required(token) = "OK" THEN token_user(token) ELSE {}

\* the answer of a token endpoint, kept with the token it was asked with
Answer(q, resp) == [Done(q, resp) EXCEPT !.arg = q.arg]

\* lines 214-243: SELECT * FROM users WHERE email = $1, the password check,
\* the tokens; user[0] is any of the rows found
login(r, email, password) ==
    /\ Free(r)
    /\ LET q == [Idle EXCEPT !.op = "login"]
           user == {u \in users : u.email = email}
       IN IF email = "" \/ password = ""
          THEN /\ req' = [req EXCEPT ![r] = Done(q, "ValidationError")]
               /\ tokens' = tokens
          ELSE IF user = {}
          THEN /\ req' = [req EXCEPT ![r] = Done(q, "AuthError")]
               /\ tokens' = tokens
          ELSE \E u \in user :
                 IF check_password_hash(u.hashed_password, password)
                 THEN /\ req' = [req EXCEPT ![r] = Done(q, "OK")]
                      /\ tokens' = tokens \cup token_pair(u)
                 ELSE /\ req' = [req EXCEPT ![r] = Done(q, "AuthError")]
                      /\ tokens' = tokens
    /\ UNCHANGED <<db, paypal_client_id, now>>

\* lines 247-282: decode, look the user up, issue a new pair
refresh_token(r, token) ==
    /\ Free(r)
    /\ LET q == [Idle EXCEPT !.op = "refresh_token", !.arg = [token |-> token]]
       IN IF token = NoToken
          THEN /\ req' = [req EXCEPT ![r] = Answer(q, "ValidationError")]
               /\ tokens' = tokens
          ELSE IF jwt_decode(token) # "ok" \/ token_user(token) = {}
          THEN /\ req' = [req EXCEPT ![r] = Answer(q, "AuthError")]
               /\ tokens' = tokens
          ELSE \E u \in token_user(token) :
                 /\ req' = [req EXCEPT ![r] = Answer(q, "OK")]
                 /\ tokens' = tokens \cup token_pair(u)
    /\ UNCHANGED <<db, paypal_client_id, now>>

\* lines 284-292: GET /auth/me, the guard and nothing else
get_current_user_info(r, token) ==
    /\ Free(r)
    /\ LET q == [Idle EXCEPT !.op = "get_current_user_info", !.arg = [token |-> token]]
       IN req' = [req EXCEPT ![r] = Answer(q, token_required(token))]
    /\ UNCHANGED <<db, env>>

\* time passes
Tick(minutes) ==
    /\ now' = now + minutes
    /\ UNCHANGED <<db, paypal_client_id, tokens, req>>

\* ------------------------------------------------------------- cart
\* lines 106-148, 557-564: token_required, then the request body
add_to_cart(r, u, product_id, quantity) ==
    /\ Free(r)
    /\ u \in users
    /\ LET q == [Idle EXCEPT !.op = "add_to_cart", !.cur = u,
                             !.arg = [product_id |-> product_id, quantity |-> quantity]]
       IN req' = [req EXCEPT ![r] =
            IF product_id = 0 THEN Done(q, "ValidationError")
            ELSE [q EXCEPT !.pc = "product"]]
    /\ UNCHANGED <<db, env>>

\* lines 566-569: SELECT * FROM products WHERE id = $1
add_to_cart_product(r) ==
    /\ req[r].op = "add_to_cart" /\ req[r].pc = "product"
    /\ req' = [req EXCEPT ![r] =
            IF req[r].arg.product_id \notin DOMAIN products
            THEN Done(@, "NotFoundError")
            ELSE [@ EXCEPT !.pc = "existing"]]
    /\ UNCHANGED <<db, env>>

\* lines 571-575: SELECT * FROM cart_items WHERE user_id = $1 AND product_id = $2;
\* existing_item[0] is any of the rows found, 0 stands for an empty result
add_to_cart_existing(r) ==
    /\ req[r].op = "add_to_cart" /\ req[r].pc = "existing"
    /\ LET found == {ci \in cart_items : ci.user_id = req[r].cur.id
                                         /\ ci.product_id = req[r].arg.product_id}
       IN \E first \in IF found = {} THEN {0} ELSE {ci.id : ci \in found} :
            req' = [req EXCEPT ![r] = [@ EXCEPT !.pc = "write", !.loc = [existing_item |-> first]]]
    /\ UNCHANGED <<db, env>>

\* the quantity of the request written over the line's quantity
add_to_cart_write_set(r) ==
    /\ req[r].op = "add_to_cart" /\ req[r].pc = "write"
    /\ LET q == req[r]
           id == q.loc.existing_item
       IN IF id # 0
          THEN /\ cart_items' = {IF ci.id = id THEN [ci EXCEPT !.quantity = q.arg.quantity]
                                 ELSE ci : ci \in cart_items}
               /\ next_id' = next_id
               /\ req' = [req EXCEPT ![r] =
                    Done(q, IF \E ci \in cart_items : ci.id = id THEN "OK" ELSE "ServerError")]
          ELSE /\ cart_items' = cart_items \cup
                    {[id |-> next_id.cart_items, user_id |-> q.cur.id,
                      product_id |-> q.arg.product_id, quantity |-> q.arg.quantity]}
               /\ next_id' = [next_id EXCEPT !.cart_items = @ + 1]
               /\ req' = [req EXCEPT ![r] = Done(q, "Created")]
    /\ UNCHANGED <<users, products, orders, order_items, paypal_payments, env>>

\* lines 577-590: UPDATE cart_items SET quantity = quantity + $1 WHERE id = $2,
\* or INSERT INTO cart_items.  result[0] of an UPDATE that found no row raises
add_to_cart_write(r) ==
    /\ req[r].op = "add_to_cart" /\ req[r].pc = "write"
    /\ LET q == req[r]
           id == q.loc.existing_item
       IN IF id # 0
          THEN /\ cart_items' = {IF ci.id = id THEN [ci EXCEPT !.quantity = @ + q.arg.quantity]
                                 ELSE ci : ci \in cart_items}
               /\ next_id' = next_id
               /\ req' = [req EXCEPT ![r] =
                    Done(q, IF \E ci \in cart_items : ci.id = id THEN "OK" ELSE "ServerError")]
          ELSE /\ cart_items' = cart_items \cup
                    {[id |-> next_id.cart_items, user_id |-> q.cur.id,
                      product_id |-> q.arg.product_id, quantity |-> q.arg.quantity]}
               /\ next_id' = [next_id EXCEPT !.cart_items = @ + 1]
               /\ req' = [req EXCEPT ![r] = Done(q, "Created")]
    /\ UNCHANGED <<users, products, orders, order_items, paypal_payments, env>>

\* lines 106-148, 595-600: token_required, then the request body
update_cart_item(r, u, item_id, quantity) ==
    /\ Free(r)
    /\ u \in users
    /\ req' = [req EXCEPT ![r] =
            [Idle EXCEPT !.op = "update_cart_item", !.cur = u, !.pc = "select",
                         !.arg = [item_id |-> item_id, quantity |-> quantity]]]
    /\ UNCHANGED <<db, env>>

\* the line looked up by its id alone
update_cart_item_select_any(r) ==
    /\ req[r].op = "update_cart_item" /\ req[r].pc = "select"
    /\ req' = [req EXCEPT ![r] =
            IF \E ci \in cart_items : ci.id = req[r].arg.item_id
            THEN [@ EXCEPT !.pc = "write"]
            ELSE Done(@, "NotFoundError")]
    /\ UNCHANGED <<db, env>>

\* lines 602-608: SELECT * FROM cart_items WHERE id = $1 AND user_id = $2
update_cart_item_select(r) ==
    /\ req[r].op = "update_cart_item" /\ req[r].pc = "select"
    /\ req' = [req EXCEPT ![r] =
            IF \E ci \in cart_items : ci.id = req[r].arg.item_id /\ ci.user_id = req[r].cur.id
            THEN [@ EXCEPT !.pc = "write"]
            ELSE Done(@, "NotFoundError")]
    /\ UNCHANGED <<db, env>>

\* lines 610-620: DELETE FROM cart_items WHERE id = $1, or
\* UPDATE cart_items SET quantity = $1 WHERE id = $2 RETURNING *
update_cart_item_write(r) ==
    /\ req[r].op = "update_cart_item" /\ req[r].pc = "write"
    /\ LET q == req[r]
           id == q.arg.item_id
       IN IF q.arg.quantity <= 0
          THEN /\ cart_items' = {ci \in cart_items : ci.id # id}
               /\ req' = [req EXCEPT ![r] = Done(q, "OK")]
          ELSE /\ cart_items' = {IF ci.id = id THEN [ci EXCEPT !.quantity = q.arg.quantity]
                                 ELSE ci : ci \in cart_items}
               /\ req' = [req EXCEPT ![r] =
                    Done(q, IF \E ci \in cart_items : ci.id = id THEN "OK" ELSE "ServerError")]
    /\ UNCHANGED <<users, products, orders, order_items, next_id, paypal_payments,
                   env>>

\* lines 106-148, 625: token_required
remove_from_cart(r, u, item_id) ==
    /\ Free(r)
    /\ u \in users
    /\ req' = [req EXCEPT ![r] =
            [Idle EXCEPT !.op = "remove_from_cart", !.cur = u, !.pc = "select",
                         !.arg = [item_id |-> item_id]]]
    /\ UNCHANGED <<db, env>>

\* lines 626-632: SELECT * FROM cart_items WHERE id = $1 AND user_id = $2
remove_from_cart_select(r) ==
    /\ req[r].op = "remove_from_cart" /\ req[r].pc = "select"
    /\ req' = [req EXCEPT ![r] =
            IF \E ci \in cart_items : ci.id = req[r].arg.item_id /\ ci.user_id = req[r].cur.id
            THEN [@ EXCEPT !.pc = "delete"]
            ELSE Done(@, "NotFoundError")]
    /\ UNCHANGED <<db, env>>

\* lines 634-635: DELETE FROM cart_items WHERE id = $1
remove_from_cart_delete(r) ==
    /\ req[r].op = "remove_from_cart" /\ req[r].pc = "delete"
    /\ cart_items' = {ci \in cart_items : ci.id # req[r].arg.item_id}
    /\ req' = [req EXCEPT ![r] = Done(@, "OK")]
    /\ UNCHANGED <<users, products, orders, order_items, next_id, paypal_payments,
                   env>>

\* ------------------------------------------------------------- products
\* lines 106-148, 474: token_required
update_product(r, u, product_id, price) ==
    /\ Free(r)
    /\ u \in users
    /\ req' = [req EXCEPT ![r] =
            [Idle EXCEPT !.op = "update_product", !.cur = u, !.pc = "select",
                         !.arg = [product_id |-> product_id, price |-> price]]]
    /\ UNCHANGED <<db, env>>

\* lines 476-481: SELECT * FROM products WHERE id = $1, then the owner check
product_select(r, op) ==
    /\ req[r].op = op /\ req[r].pc = "select"
    /\ LET q == req[r]
           id == q.arg.product_id
       IN req' = [req EXCEPT ![r] =
            IF id \notin DOMAIN products THEN Done(q, "NotFoundError")
            ELSE IF products[id].vendor_id # q.cur.id /\ q.cur.role # "admin"
            THEN Done(q, "ForbiddenError")
            ELSE [q EXCEPT !.pc = "write"]]
    /\ UNCHANGED <<db, env>>

update_product_select(r) == product_select(r, "update_product")

\* lines 483-503: UPDATE products SET price = $1 WHERE id = $2 RETURNING *
update_product_write(r) ==
    /\ req[r].op = "update_product" /\ req[r].pc = "write"
    /\ products' = [products EXCEPT ![req[r].arg.product_id].price = req[r].arg.price]
    /\ req' = [req EXCEPT ![r] = Done(@, "OK")]
    /\ UNCHANGED <<users, cart_items, orders, order_items, next_id, paypal_payments,
                   env>>

\* lines 106-148, 508: token_required
delete_product(r, u, product_id) ==
    /\ Free(r)
    /\ u \in users
    /\ req' = [req EXCEPT ![r] =
            [Idle EXCEPT !.op = "delete_product", !.cur = u, !.pc = "select",
                         !.arg = [product_id |-> product_id]]]
    /\ UNCHANGED <<db, env>>

\* lines 509-514: SELECT * FROM products WHERE id = $1, then the owner check
delete_product_select(r) == product_select(r, "delete_product")

\* lines 516-517: UPDATE products SET is_active = false WHERE id = $1
delete_product_write(r) ==
    /\ req[r].op = "delete_product" /\ req[r].pc = "write"
    /\ products' = [products EXCEPT ![req[r].arg.product_id].is_active = FALSE]
    /\ req' = [req EXCEPT ![r] = Done(@, "OK")]
    /\ UNCHANGED <<users, cart_items, orders, order_items, next_id, paypal_payments,
                   env>>

\* lines 383-403: SELECT * FROM products WHERE is_active = true (no category,
\* no search, the first page)
get_products(r) ==
    /\ Free(r)
    /\ req' = [req EXCEPT ![r] =
            [Idle EXCEPT !.op = "get_products", !.pc = "count",
                         !.loc = [products |-> {id \in DOMAIN products :
                                                   products[id].is_active},
                                  total |-> 0]]]
    /\ UNCHANGED <<db, env>>

\* lines 410-432: SELECT COUNT(*) FROM products WHERE is_active = true
get_products_count(r) ==
    /\ req[r].op = "get_products" /\ req[r].pc = "count"
    /\ req' = [req EXCEPT ![r] =
            [@ EXCEPT !.pc = "done", !.resp = "OK",
                      !.loc.total = Cardinality({id \in DOMAIN products :
                                                    products[id].is_active})]]
    /\ UNCHANGED <<db, env>>

\* lines 436-443: SELECT * FROM products WHERE id = $1 AND is_active = true
get_product(r, product_id) ==
    /\ Free(r)
    /\ LET q == [Idle EXCEPT !.op = "get_product"]
       IN req' = [req EXCEPT ![r] =
            Done(q, IF product_id \in DOMAIN products /\ products[product_id].is_active
                    THEN "OK" ELSE "NotFoundError")]
    /\ UNCHANGED <<db, env>>

\* ------------------------------------------------------------- checkout
\* a total that forgets the quantities
RECURSIVE total_amount_prices(_)
total_amount_prices(rows) ==
    IF rows = {} THEN 0
    ELSE LET it == CHOOSE x \in rows : TRUE
         IN it.price + total_amount_prices(rows \ {it})

\* line 659: total_amount = sum(price * quantity) over the rows read
RECURSIVE total_amount(_)
total_amount(rows) ==
    IF rows = {} THEN 0
    ELSE LET it == CHOOSE x \in rows : TRUE
         IN it.price * it.quantity + total_amount(rows \ {it})

\* lines 648-653: cart_items JOIN products WHERE ci.user_id = $1
cart_join(user_id) ==
    {[id |-> ci.id, product_id |-> ci.product_id, quantity |-> ci.quantity,
      price |-> products[ci.product_id].price] :
        ci \in {c \in cart_items : c.user_id = user_id /\ c.product_id \in DOMAIN products}}

\* lines 106-148, 523-552: token_required, then the SELECT of lines 524-529
\* (the query of lines 648-653); the response carries the rows, their total
\* and their number
get_cart(r, u) ==
    /\ Free(r)
    /\ u \in users
    /\ LET rows == cart_join(u.id)
       IN req' = [req EXCEPT ![r] =
            [Idle EXCEPT !.op = "get_cart", !.cur = u, !.pc = "done", !.resp = "OK",
                         !.loc = [items |-> rows, total |-> total_amount(rows),
                                  item_count |-> Cardinality(rows)]]]
    /\ UNCHANGED <<db, env>>

\* the status of an order row inserted without one (line 728): the column
\* default, which the handler reports as "created" (line 747)
DefaultOrderStatus == "created"

\* line 729: "mock_<unix time>"; no statement looks an order up by it
MockIntent == [kind |-> "mock", n |-> 0]

PaypalIntent(n) == [kind |-> "paypal", n |-> n]

\* lines 106-148, 641-645: token_required, then the request body
create_payment(r, u, payment_method) ==
    /\ Free(r)
    /\ u \in users
    /\ req' = [req EXCEPT ![r] =
            [Idle EXCEPT !.op = "create_payment", !.cur = u, !.pc = "cart",
                         !.arg = [payment_method |-> payment_method]]]
    /\ UNCHANGED <<db, env>>

\* the configuration test inverted
gateway_unconfigured(payment_method) == payment_method = "paypal" /\ ~paypal_client_id

\* line 661: the gateway path is taken only with credentials configured
gateway(payment_method) == payment_method = "paypal" /\ paypal_client_id

\* lines 647-661: read the cart, total it, choose the path
create_payment_cart(r) ==
    /\ req[r].op = "create_payment" /\ req[r].pc = "cart"
    /\ LET q == req[r]
           rows == cart_join(q.cur.id)
       IN req' = [req EXCEPT ![r] =
            IF rows = {} THEN Done(q, "ValidationError")
            ELSE [q EXCEPT !.pc = IF gateway(q.arg.payment_method) THEN "paypal" ELSE "order",
                           !.loc = [cart_items |-> rows, todo |-> rows,
                                    total_amount |-> total_amount(rows),
                                    payment_id |-> 0, order_id |-> 0]]]
    /\ UNCHANGED <<db, env>>

\* lines 673-694, 722-723: payment.create() at the provider
create_payment_paypal(r, created) ==
    /\ req[r].op = "create_payment" /\ req[r].pc = "paypal"
    /\ IF created
       THEN LET n == Cardinality(DOMAIN paypal_payments) + 1
            IN /\ paypal_payments' = [i \in DOMAIN paypal_payments \cup {n} |->
                                        IF i = n THEN "created" ELSE paypal_payments[i]]
               /\ req' = [req EXCEPT ![r] = [@ EXCEPT !.pc = "order", !.loc.payment_id = n]]
       ELSE /\ paypal_payments' = paypal_payments
            /\ req' = [req EXCEPT ![r] = Done(@, "PaymentError")]
    /\ UNCHANGED <<users, products, cart_items, orders, order_items, next_id,
                   env>>

\* lines 696-700 and 727-731: INSERT INTO orders ... RETURNING *
create_payment_order(r) ==
    /\ req[r].op = "create_payment" /\ req[r].pc = "order"
    /\ LET q == req[r]
           gw == gateway(q.arg.payment_method)
       IN /\ orders' = orders \cup
                {[id |-> next_id.orders, user_id |-> q.cur.id,
                  total_amount |-> q.loc.total_amount,
                  payment_intent_id |-> IF gw THEN PaypalIntent(q.loc.payment_id)
                                        ELSE MockIntent,
                  status |-> IF gw THEN "pending_payment" ELSE DefaultOrderStatus]}
          /\ req' = [req EXCEPT ![r] = [q EXCEPT !.pc = "items",
                                                 !.loc.order_id = next_id.orders]]
    /\ next_id' = [next_id EXCEPT !.orders = @ + 1]
    /\ UNCHANGED <<users, products, cart_items, order_items, paypal_payments,
                   env>>

\* an order item priced from the products table when it is inserted
order_item_live(id, order_id, cart_item) ==
    [id |-> id, order_id |-> order_id, product_id |-> cart_item.product_id,
     quantity |-> cart_item.quantity, price |-> products[cart_item.product_id].price]

\* the row of order_items written for a cart row read at lines 648-653
order_item(id, order_id, cart_item) ==
    [id |-> id, order_id |-> order_id, product_id |-> cart_item.product_id,
     quantity |-> cart_item.quantity, price |-> cart_item.price]

\* lines 702-721 and 733-738: one INSERT INTO order_items per cart row read,
\* in the order of the result set; the gateway path returns after the last
create_payment_items(r) ==
    /\ req[r].op = "create_payment" /\ req[r].pc = "items"
    /\ \E it \in req[r].loc.todo :
         LET q == req[r]
             rest == q.loc.todo \ {it}
         IN /\ order_items' = order_items \cup
                  {order_item(next_id.order_items, q.loc.order_id, it)}
            /\ req' = [req EXCEPT ![r] =
                 IF rest # {} THEN [q EXCEPT !.loc.todo = rest]
                 ELSE IF gateway(q.arg.payment_method) THEN Done(q, "OK")
                 ELSE [q EXCEPT !.pc = "clear", !.loc.todo = rest]]
    /\ next_id' = [next_id EXCEPT !.order_items = @ + 1]
    /\ UNCHANGED <<users, products, cart_items, orders, paypal_payments, env>>

\* lines 740-748: DELETE FROM cart_items WHERE user_id = $1
create_payment_clear(r) ==
    /\ req[r].op = "create_payment" /\ req[r].pc = "clear"
    /\ cart_items' = {ci \in cart_items : ci.user_id # req[r].cur.id}
    /\ req' = [req EXCEPT ![r] = Done(@, "OK")]
    /\ UNCHANGED <<users, products, orders, order_items, next_id, paypal_payments,
                   env>>

\* ------------------------------------------------------------- payment
\* lines 106-148, 753-759: token_required, then the request body
execute_payment(r, u, payment_id, payer_id) ==
    /\ Free(r)
    /\ u \in users
    /\ LET q == [Idle EXCEPT !.op = "execute_payment", !.cur = u,
                             !.arg = [payment_id |-> payment_id, payer_id |-> payer_id]]
       IN req' = [req EXCEPT ![r] =
            IF payment_id = 0 \/ payer_id = "" THEN Done(q, "ValidationError")
            ELSE [q EXCEPT !.pc = "paypal"]]
    /\ UNCHANGED <<db, env>>

\* what the provider can answer to find(payment_id) and execute(payer_id): an
\* unknown payment raises, a payment is captured at most once
PaypalOutcomes(payment_id) ==
    IF payment_id \in DOMAIN paypal_payments /\ paypal_payments[payment_id] = "created"
    THEN {"success", "failure", "raise"}
    ELSE {"failure", "raise"}

\* the order marked as paid before the provider's answer is looked at
execute_payment_paypal_eager(r, outcome) ==
    /\ req[r].op = "execute_payment" /\ req[r].pc = "paypal"
    /\ outcome \in PaypalOutcomes(req[r].arg.payment_id)
    /\ orders' = {IF o.payment_intent_id = PaypalIntent(req[r].arg.payment_id)
                     /\ o.user_id = req[r].cur.id
                  THEN [o EXCEPT !.status = "created"] ELSE o : o \in orders}
    /\ IF outcome = "success"
       THEN /\ paypal_payments' = [paypal_payments EXCEPT ![req[r].arg.payment_id] = "executed"]
            /\ req' = [req EXCEPT ![r] = [@ EXCEPT !.pc = "update"]]
       ELSE /\ paypal_payments' = paypal_payments
            /\ req' = [req EXCEPT ![r] = Done(@, "PaymentError")]
    /\ UNCHANGED <<users, products, cart_items, order_items, next_id, env>>

\* lines 761-765, 787-791: Payment.find and payment.execute at the provider
execute_payment_paypal(r, outcome) ==
    /\ req[r].op = "execute_payment" /\ req[r].pc = "paypal"
    /\ outcome \in PaypalOutcomes(req[r].arg.payment_id)
    /\ IF outcome = "success"
       THEN /\ paypal_payments' = [paypal_payments EXCEPT ![req[r].arg.payment_id] = "executed"]
            /\ req' = [req EXCEPT ![r] = [@ EXCEPT !.pc = "update"]]
       ELSE /\ paypal_payments' = paypal_payments
            /\ req' = [req EXCEPT ![r] = Done(@, "PaymentError")]
    /\ UNCHANGED <<users, products, cart_items, orders, order_items, next_id,
                   env>>

\* lines 767-770: UPDATE orders SET status = 'created'
\*                WHERE payment_intent_id = $1 AND user_id = $2
execute_payment_update(r) ==
    /\ req[r].op = "execute_payment" /\ req[r].pc = "update"
    /\ orders' = {IF o.payment_intent_id = PaypalIntent(req[r].arg.payment_id)
                     /\ o.user_id = req[r].cur.id
                  THEN [o EXCEPT !.status = "created"] ELSE o : o \in orders}
    /\ req' = [req EXCEPT ![r] = [@ EXCEPT !.pc = "clear"]]
    /\ UNCHANGED <<users, products, cart_items, order_items, next_id, paypal_payments,
                   env>>

\* lines 772-773: DELETE FROM cart_items WHERE user_id = $1
execute_payment_clear(r) ==
    /\ req[r].op = "execute_payment" /\ req[r].pc = "clear"
    /\ cart_items' = {ci \in cart_items : ci.user_id # req[r].cur.id}
    /\ req' = [req EXCEPT ![r] = [@ EXCEPT !.pc = "order"]]
    /\ UNCHANGED <<users, products, orders, order_items, next_id, paypal_payments,
                   env>>

\* lines 775-786: SELECT * FROM orders WHERE payment_intent_id = $1 AND user_id = $2
execute_payment_order(r) ==
    /\ req[r].op = "execute_payment" /\ req[r].pc = "order"
    /\ req' = [req EXCEPT ![r] = Done(@, "OK")]
    /\ UNCHANGED <<db, env>>

\* ------------------------------------------------------------- orders
\* lines 106-148, 877: token_required
cancel_order(r, u, order_id) ==
    /\ Free(r)
    /\ u \in users
    /\ req' = [req EXCEPT ![r] =
            [Idle EXCEPT !.op = "cancel_order", !.cur = u, !.pc = "select",
                         !.arg = [order_id |-> order_id]]]
    /\ UNCHANGED <<db, env>>

\* lines 878-884: SELECT * FROM orders WHERE id = $1 AND user_id = $2
cancel_order_select(r) ==
    /\ req[r].op = "cancel_order" /\ req[r].pc = "select"
    /\ LET q == req[r]
           order == {o \in orders : o.id = q.arg.order_id /\ o.user_id = q.cur.id}
       IN req' = [req EXCEPT ![r] =
            IF order = {} THEN Done(q, "NotFoundError")
            ELSE IF \A o \in order : o.status \notin {"created", "pending_payment"}
            THEN Done(q, "StateError")
            ELSE [q EXCEPT !.pc = "update"]]
    /\ UNCHANGED <<db, env>>

\* lines 886-888: UPDATE orders SET status = 'cancelled' WHERE id = $1
cancel_order_update(r) ==
    /\ req[r].op = "cancel_order" /\ req[r].pc = "update"
    /\ orders' = {IF o.id = req[r].arg.order_id THEN [o EXCEPT !.status = "cancelled"]
                  ELSE o : o \in orders}
    /\ req' = [req EXCEPT ![r] = Done(@, "OK")]
    /\ UNCHANGED <<users, products, cart_items, order_items, next_id, paypal_payments,
                   env>>

\* line 902
valid_statuses ==
    {"created", "confirmed", "shipped", "delivered", "cancelled", "pending_payment"}

\* lines 106-148, 893-904: token_required, the role check, the status check
update_order_status(r, u, order_id, status) ==
    /\ Free(r)
    /\ u \in users
    /\ LET q == [Idle EXCEPT !.op = "update_order_status", !.cur = u,
                             !.arg = [order_id |-> order_id, status |-> status]]
       IN req' = [req EXCEPT ![r] =
            IF u.role \notin {"admin", "vendor"} THEN Done(q, "ForbiddenError")
            ELSE IF status \notin valid_statuses THEN Done(q, "ValidationError")
            ELSE [q EXCEPT !.pc = "update"]]
    /\ UNCHANGED <<db, env>>

\* the new status written to every order
update_order_status_update_all(r) ==
    /\ req[r].op = "update_order_status" /\ req[r].pc = "update"
    /\ orders' = {[o EXCEPT !.status = req[r].arg.status] : o \in orders}
    /\ req' = [req EXCEPT ![r] =
            Done(@, IF \E o \in orders : o.id = req[r].arg.order_id THEN "OK"
                    ELSE "NotFoundError")]
    /\ UNCHANGED <<users, products, cart_items, order_items, next_id, paypal_payments,
                   env>>

\* lines 906-915: UPDATE orders SET status = $1 WHERE id = $2 RETURNING *
update_order_status_update(r) ==
    /\ req[r].op = "update_order_status" /\ req[r].pc = "update"
    /\ orders' = {IF o.id = req[r].arg.order_id THEN [o EXCEPT !.status = req[r].arg.status]
                  ELSE o : o \in orders}
    /\ req' = [req EXCEPT ![r] =
            Done(@, IF \E o \in orders : o.id = req[r].arg.order_id THEN "OK"
                    ELSE "NotFoundError")]
    /\ UNCHANGED <<users, products, cart_items, order_items, next_id, paypal_payments,
                   env>>

\* ------------------------------------------------------------- initial state
\* the products listed, and the prices a vendor asks (in minor units)
ProductIds == {1, 2}
Prices == {5, 7}

\* a customer and a vendor are registered and the vendor has listed the
\* products; no cart line and no order exists.  The provider credentials
\* are read from the environment at start-up (lines 19-28): present or absent
Init ==
    /\ users = {[id |-> 1, email |-> "a@x.io", username |-> "a", role |-> "customer",
                 hashed_password |-> generate_password_hash("pw")],
                [id |-> 2, email |-> "v@x.io", username |-> "v", role |-> "vendor",
                 hashed_password |-> generate_password_hash("pw")]}
    /\ products = [p \in ProductIds |-> [price |-> IF p = 1 THEN 5 ELSE 7, is_active |-> TRUE, vendor_id |-> 2]]
    /\ cart_items = {}
    /\ orders = {}
    /\ order_items = {}
    /\ next_id = [users |-> 3, cart_items |-> 1, orders |-> 1, order_items |-> 1]
    /\ paypal_payments = <<>>
    /\ paypal_client_id \in BOOLEAN
    /\ tokens = {}
    /\ now = 0
    /\ req = [r \in Req |-> Idle]

\* ------------------------------------------------------------- bounds
\* The tables grow without limit; each specification serves a request only
\* while the rows it may add stay within these bounds.
InFlight(op) == Cardinality({r \in Req : req[r].op = op /\ req[r].pc # "done"})

RECURSIVE Quantities(_)
Quantities(rows) ==
    IF rows = {} THEN 0
    ELSE LET it == CHOOSE x \in rows : TRUE IN it.quantity + Quantities(rows \ {it})

InFlightQuantity ==
    Quantities({[r |-> r, quantity |-> req[r].arg.quantity] :
                   r \in {x \in Req : req[x].op = "add_to_cart" /\ req[x].pc # "done"}})

RoomForUser == Cardinality(users) + InFlight("signup") < MaxUsers

RoomForLine(maxLines, maxQuantity, quantity) ==
    /\ next_id.cart_items + InFlight("add_to_cart") <= maxLines
    /\ Quantities(cart_items) + InFlightQuantity + quantity <= maxQuantity

RoomForOrder(maxOrders) == next_id.orders + InFlight("create_payment") <= maxOrders

\* the user whose requests are followed where one user is enough
Shoppers == {u \in users : u.id = 1}

\* ------------------------------------------------------------- accounts
NextUsers ==
    \E r \in Req :
        \/ /\ RoomForUser
           /\ \E e \in EmailInputs, n \in UsernameInputs, p \in PasswordInputs,
                 ro \in RoleInputs : signup(r, e, n, p, ro)
        \/ signup_check_username(r)
        \/ signup_insert(r)
        \/ \E u \in Shoppers, d \in ProfileData : update_profile(r, u, d)
        \/ update_profile_check(r)
        \/ update_profile_update(r)
        \/ Return(r)

SpecUsers == Init /\ [][NextUsers]_vars

\* ------------------------------------------------------------- sessions
\* a token made without the key, and the tokens a client can present
ForgedToken == [sub |-> "a@x.io", user_id |-> 1, exp |-> MaxClock + 1, key |-> "guess"]

TokenInputs == tokens \cup {NoToken, ForgedToken}

\* a change of email address
EmailChanges == {d \in ProfileData : Len(d) = 1 /\ d[1].field = "email"}

\* the time that passes between requests: the life of an access token, or
\* that of a refresh token
Elapse == {ACCESS_TOKEN_EXPIRE_MINUTES, REFRESH_TOKEN_EXPIRE_DAYS * 24 * 60}

RoomForTokens == Cardinality(tokens) + 2 <= MaxTokens

NextAuth ==
    \/ \E r \in Req :
        \/ /\ RoomForTokens
           /\ \E e \in EmailInputs, p \in PasswordInputs \cup {"guess"} : login(r, e, p)
        \/ /\ RoomForTokens
           /\ \E t \in TokenInputs : refresh_token(r, t)
        \/ \E t \in TokenInputs : get_current_user_info(r, t)
        \/ \E t \in tokens : \E u \in current_user(t), d \in EmailChanges :
              update_profile(r, u, d)
        \/ update_profile_check(r)
        \/ update_profile_update(r)
        \/ Return(r)
    \/ /\ now < MaxClock
       /\ \E minutes \in Elapse : Tick(minutes)

SpecAuth == Init /\ [][NextAuth]_vars

\* ------------------------------------------------------------- roles
\* lines 79-82
UserRole == {"customer", "vendor", "admin"}

\* the role of a signup request: any JSON string, one of the enumeration or not
RoleValues == UserRole \cup {"root"}

NextRoles ==
    \E r \in Req :
        \/ /\ RoomForUser
           /\ \E e \in EmailInputs, n \in UsernameInputs, ro \in RoleValues :
                 signup(r, e, n, "pw", ro)
        \/ signup_check_username(r)
        \/ signup_insert(r)
        \/ \E u \in Shoppers, d \in EmailChanges : update_profile(r, u, d)
        \/ update_profile_check(r)
        \/ update_profile_update(r)
        \/ Return(r)

SpecRoles == Init /\ [][NextRoles]_vars

\* ------------------------------------------------------------- order lifecycle
StatusInputs == valid_statuses \cup {"refunded"}

NextOrders ==
    \E r \in Req :
        \/ /\ RoomForLine(OneLine, OneLine, 1)
           /\ \E u \in Shoppers : add_to_cart(r, u, 1, 1)
        \/ add_to_cart_product(r)
        \/ add_to_cart_existing(r)
        \/ add_to_cart_write(r)
        \/ /\ RoomForOrder(MaxOrders)
           /\ \E u \in Shoppers, m \in {"paypal", "mock"} : create_payment(r, u, m)
        \/ create_payment_cart(r)
        \/ \E created \in BOOLEAN : create_payment_paypal(r, created)
        \/ create_payment_order(r)
        \/ create_payment_items(r)
        \/ create_payment_clear(r)
        \/ \E u \in users, n \in 0..MaxOrders, p \in {"", "payer"} : execute_payment(r, u, n, p)
        \/ \E outcome \in {"success", "failure", "raise"} : execute_payment_paypal(r, outcome)
        \/ execute_payment_update(r)
        \/ execute_payment_clear(r)
        \/ execute_payment_order(r)
        \/ \E u \in Shoppers, o \in 1..MaxOrders : cancel_order(r, u, o)
        \/ cancel_order_select(r)
        \/ cancel_order_update(r)
        \/ \E u \in users, o \in 1..MaxOrders, st \in StatusInputs :
              update_order_status(r, u, o, st)
        \/ update_order_status_update(r)
        \/ Return(r)

SpecOrders == Init /\ [][NextOrders]_vars

\* ------------------------------------------------------------- order status
\* the shopper orders product 1 again and again, without the gateway, while
\* the vendor and the shopper ask for new statuses of the orders
StatusChoices == {"created", "shipped", "cancelled", "refunded"}

NextStatus ==
    \E r \in Req :
        \/ /\ cart_items = {} /\ InFlight("add_to_cart") = 0
           /\ RoomForOrder(MaxStatusOrders)
           /\ \E u \in Shoppers : add_to_cart(r, u, 1, 1)
        \/ add_to_cart_product(r)
        \/ add_to_cart_existing(r)
        \/ add_to_cart_write(r)
        \/ /\ RoomForOrder(MaxStatusOrders)
           /\ \E u \in Shoppers : create_payment(r, u, "mock")
        \/ create_payment_cart(r)
        \/ create_payment_order(r)
        \/ create_payment_items(r)
        \/ create_payment_clear(r)
        \/ \E u \in users, o \in 1..MaxStatusOrders, st \in StatusChoices :
              update_order_status(r, u, o, st)
        \/ update_order_status_update(r)
        \/ Return(r)

SpecStatus == Init /\ [][NextStatus]_vars

\* ------------------------------------------------------------- cart and catalog
QuantityInputs == {1, 2}

\* a product id left out of the request (0), listed ones, and an unknown one
ProductInputs == {0} \cup ProductIds \cup {3}

NextCart ==
    \E r \in Req :
        \/ \E u \in Shoppers, p \in ProductInputs, n \in QuantityInputs :
              /\ RoomForLine(MaxLines, MaxQuantity, n)
              /\ add_to_cart(r, u, p, n)
        \/ add_to_cart_product(r)
        \/ add_to_cart_existing(r)
        \/ add_to_cart_write(r)
        \/ \E u \in Shoppers, i \in 1..MaxLines, n \in {0, 1} : update_cart_item(r, u, i, n)
        \/ update_cart_item_select(r)
        \/ update_cart_item_write(r)
        \/ \E u \in Shoppers, i \in 1..MaxLines : remove_from_cart(r, u, i)
        \/ remove_from_cart_select(r)
        \/ remove_from_cart_delete(r)
        \/ /\ RoomForOrder(MaxOrders)
           /\ \E u \in Shoppers, m \in {"paypal", "mock"} : create_payment(r, u, m)
        \/ create_payment_cart(r)
        \/ \E created \in BOOLEAN : create_payment_paypal(r, created)
        \/ create_payment_order(r)
        \/ create_payment_items(r)
        \/ create_payment_clear(r)
        \/ Return(r)

SpecCart == Init /\ [][NextCart]_vars

\* ------------------------------------------------------------- two carts
\* the lines in the cart_items table: a client asks for lines it has seen
LineIds == {ci.id : ci \in cart_items}

\* both users put product 1 into an empty cart, look at it and change it, and
\* the first of them to check out does, through the gateway where it is
\* configured; either of them may then try to capture the payment
NextShared ==
    \E r \in Req :
        \/ /\ next_id.cart_items <= MaxLines /\ InFlight("add_to_cart") = 0
           /\ \E u \in {x \in users : \A ci \in cart_items : ci.user_id # x.id} :
                 add_to_cart(r, u, 1, 1)
        \/ add_to_cart_product(r)
        \/ add_to_cart_existing(r)
        \/ add_to_cart_write(r)
        \/ \E u \in users : get_cart(r, u)
        \/ \E u \in users, i \in LineIds : update_cart_item(r, u, i, 2)
        \/ update_cart_item_select(r)
        \/ update_cart_item_write(r)
        \/ \E u \in users, i \in LineIds : remove_from_cart(r, u, i)
        \/ remove_from_cart_select(r)
        \/ remove_from_cart_delete(r)
        \/ /\ orders = {} /\ InFlight("create_payment") = 0
           /\ \E u \in users : create_payment(r, u, "paypal")
        \/ create_payment_cart(r)
        \/ \E created \in BOOLEAN : create_payment_paypal(r, created)
        \/ create_payment_order(r)
        \/ create_payment_items(r)
        \/ create_payment_clear(r)
        \/ \E u \in users, n \in DOMAIN paypal_payments : execute_payment(r, u, n, "payer")
        \/ \E outcome \in {"success", "failure", "raise"} : execute_payment_paypal(r, outcome)
        \/ execute_payment_update(r)
        \/ execute_payment_clear(r)
        \/ execute_payment_order(r)
        \/ Return(r)

SpecShared == Init /\ [][NextShared]_vars

\* ------------------------------------------------------------- catalog and checkout
\* the shopper puts product 1 into the cart whenever it is empty and checks
\* out, while the vendor reprices and withdraws that product
NextCheckout ==
    \E r \in Req :
        \/ /\ cart_items = {} /\ InFlight("add_to_cart") = 0
           /\ \E u \in Shoppers : add_to_cart(r, u, 1, 1)
        \/ add_to_cart_product(r)
        \/ add_to_cart_existing(r)
        \/ add_to_cart_write(r)
        \/ /\ RoomForOrder(MaxOrders)
           /\ \E u \in Shoppers, m \in {"paypal", "mock"} : create_payment(r, u, m)
        \/ create_payment_cart(r)
        \/ \E created \in BOOLEAN : create_payment_paypal(r, created)
        \/ create_payment_order(r)
        \/ create_payment_items(r)
        \/ create_payment_clear(r)
        \/ \E u \in Shoppers, n \in 0..MaxOrders, p \in {"", "payer"} : execute_payment(r, u, n, p)
        \/ \E outcome \in {"success", "failure", "raise"} : execute_payment_paypal(r, outcome)
        \/ execute_payment_update(r)
        \/ execute_payment_clear(r)
        \/ execute_payment_order(r)
        \/ \E u \in users, c \in Prices : update_product(r, u, 1, c)
        \/ update_product_select(r)
        \/ update_product_write(r)
        \/ \E u \in users : delete_product(r, u, 1)
        \/ delete_product_select(r)
        \/ delete_product_write(r)
        \/ Return(r)

SpecCheckout == Init /\ [][NextCheckout]_vars

\* ------------------------------------------------------------- withdrawn products
\* the vendor withdraws product 1 while the shopper browses, fills the cart
\* and checks out without the gateway
NextCatalog ==
    \E r \in Req :
        \/ get_products(r)
        \/ get_products_count(r)
        \/ \E p \in ProductIds : get_product(r, p)
        \/ \E u \in users : delete_product(r, u, 1)
        \/ delete_product_select(r)
        \/ delete_product_write(r)
        \/ /\ RoomForLine(MaxLines, MaxLines, 1)
           /\ \E u \in Shoppers, p \in ProductIds : add_to_cart(r, u, p, 1)
        \/ add_to_cart_product(r)
        \/ add_to_cart_existing(r)
        \/ add_to_cart_write(r)
        \/ \E u \in Shoppers : get_cart(r, u)
        \/ /\ RoomForOrder(MaxOrders)
           /\ \E u \in Shoppers : create_payment(r, u, "mock")
        \/ create_payment_cart(r)
        \/ create_payment_order(r)
        \/ create_payment_items(r)
        \/ create_payment_clear(r)
        \/ Return(r)

SpecCatalog == Init /\ [][NextCatalog]_vars

\* ------------------------------------------------------------- any quantity
\* the quantity of a request: any JSON number
AnyQuantity == {-1, 0, 1, 2}

\* the quantities in the cart and in flight stay within the bound on both sides
RoomForQuantity(quantity) ==
    /\ RoomForLine(MaxLines, MaxQuantity, quantity)
    /\ Quantities(cart_items) + InFlightQuantity + quantity >= 0 - MaxQuantity

NextQuantity ==
    \E r \in Req :
        \/ \E u \in Shoppers, n \in AnyQuantity :
              /\ RoomForQuantity(n)
              /\ add_to_cart(r, u, 1, n)
        \/ add_to_cart_product(r)
        \/ add_to_cart_existing(r)
        \/ add_to_cart_write(r)
        \/ \E u \in Shoppers, i \in 1..MaxLines, n \in AnyQuantity : update_cart_item(r, u, i, n)
        \/ update_cart_item_select(r)
        \/ update_cart_item_write(r)
        \/ /\ RoomForOrder(MaxOrders)
           /\ \E u \in Shoppers : create_payment(r, u, "mock")
        \/ create_payment_cart(r)
        \/ create_payment_order(r)
        \/ create_payment_items(r)
        \/ create_payment_clear(r)
        \/ Return(r)

SpecQuantity == Init /\ [][NextQuantity]_vars

\* ------------------------------------------------------------- one request at a time
\* every request is served to its response before the next one is accepted
NextSeq ==
    \E r \in {1} :
        \/ \E u \in Shoppers, p \in ProductIds, n \in QuantityInputs :
              /\ RoomForLine(MaxLines, MaxQuantity, n)
              /\ add_to_cart(r, u, p, n)
        \/ add_to_cart_product(r)
        \/ add_to_cart_existing(r)
        \/ add_to_cart_write(r)
        \/ /\ RoomForOrder(MaxOrders)
           /\ \E u \in Shoppers, m \in {"paypal", "mock"} : create_payment(r, u, m)
        \/ create_payment_cart(r)
        \/ \E created \in BOOLEAN : create_payment_paypal(r, created)
        \/ create_payment_order(r)
        \/ create_payment_items(r)
        \/ create_payment_clear(r)
        \/ \E u \in users, p \in ProductIds, c \in Prices : update_product(r, u, p, c)
        \/ update_product_select(r)
        \/ update_product_write(r)
        \/ Return(r)

SpecSeq == Init /\ [][NextSeq]_vars

\* ------------------------------------------------------------- properties
\* the request that takes the step
Steps(r, op, pc) == req[r].op = op /\ req[r].pc = pc /\ req'[r] # req[r]

\* the orders whose status the step changes, as pairs <<before, after>>
StatusChanges ==
    {<<o, o2>> \in orders \X orders' : o2.id = o.id /\ o2.status # o.status}

\* one forward step of the lifecycle, or a cancellation of an order not yet confirmed
LegalStep(from, to) ==
    <<from, to>> \in {<<"pending_payment", "created">>, <<"created", "confirmed">>,
                      <<"confirmed", "shipped">>, <<"shipped", "delivered">>,
                      <<"pending_payment", "cancelled">>, <<"created", "cancelled">>}

\* C1: every change of an order's status is one forward step along
\* pending_payment -> created -> confirmed -> shipped -> delivered, or a
\* change to cancelled from pending_payment or created
C1_LegalTransitions ==
    [][\A ch \in StatusChanges : LegalStep(ch[1].status, ch[2].status)]_vars

\* C2: there is at most one cart line per (user_id, product_id) pair
C2_OneLinePerPair ==
    \A c1 \in cart_items, c2 \in cart_items :
        c1.user_id = c2.user_id /\ c1.product_id = c2.product_id => c1.id = c2.id

\* C3: executePayment changes the status of an order only if the order belongs
\* to the caller, carries the payment id and is in pending_payment, and then
\* sets it to created
C3_ExecuteOnlyPending ==
    [][\A r \in Req : Steps(r, "execute_payment", "update") =>
          \A ch \in StatusChanges :
              /\ ch[1].user_id = req[r].cur.id
              /\ ch[1].payment_intent_id = PaypalIntent(req[r].arg.payment_id)
              /\ ch[1].status = "pending_payment"
              /\ ch[2].status = "created"]_vars

\* C4: cancel writes cancelled only to an order of the caller whose status
\* immediately before the write is created or pending_payment
C4_CancelOnlyOpen ==
    [][\A r \in Req : Steps(r, "cancel_order", "update") =>
          \A ch \in StatusChanges :
              /\ ch[1].user_id = req[r].cur.id
              /\ ch[1].status \in {"created", "pending_payment"}]_vars


\* what a step of a checkout sent with payment_method = paypal may do on the
\* gateway path: leave every cart line alone and insert orders in pending_payment
GatewayStep(r) ==
    /\ cart_items' = cart_items
    /\ \A o \in orders' \ orders : o.status = "pending_payment"

RECURSIVE LinesTotal(_)
LinesTotal(lines) ==
    IF lines = {} THEN 0
    ELSE LET ci == CHOOSE x \in lines : TRUE
         IN products[ci.product_id].price * ci.quantity + LinesTotal(lines \ {ci})

C7_ClearsWhatItOrdered ==
    [][\A r \in Req : Steps(r, "create_payment", "clear") =>
          \A ci \in cart_items \ cart_items' :
              \E it \in req[r].loc.cart_items :
                  it.id = ci.id /\ it.product_id = ci.product_id
                  /\ it.quantity = ci.quantity]_vars

\* C8: when the provider's capture fails or raises, executePayment answers
\* with a payment error and changes no order, no order item and no cart
\* line; an executePayment that answers with a payment error has written nothing
C8_FailedCaptureWritesNothing ==
    [][\A r \in Req :
          /\ Steps(r, "execute_payment", "paypal") /\ req'[r].pc = "done" =>
                /\ req'[r].resp = "PaymentError"
                /\ orders' = orders /\ order_items' = order_items
                /\ cart_items' = cart_items
          /\ req[r].op = "execute_payment" /\ req[r].pc # "done"
             /\ req'[r].pc = "done" /\ req'[r].resp = "PaymentError" =>
                req[r].pc = "paypal"]_vars

\* a capture has failed while an order waits for its payment and the cart
\* still holds a line
C8_Witness ==
    /\ \E r \in Req : req[r].op = "execute_payment" /\ req[r].pc = "done"
                      /\ req[r].resp = "PaymentError"
    /\ \E o \in orders : o.status = "pending_payment" /\ o.payment_intent_id.kind = "paypal"
    /\ cart_items # {}

C10_UniqueUsers ==
    \A u1 \in users, u2 \in users :
        u1.id # u2.id => u1.email # u2.email /\ u1.username # u2.username

\* the requests answered by the step: those of the token endpoints
Answered(r) ==
    /\ req[r].pc = "idle" /\ req'[r].pc = "done"
    /\ req'[r].op \in {"get_current_user_info", "refresh_token"}

\* C11: the token guard and refresh accept a token only if, when the request
\* is served, the token is unexpired and a user row exists whose email is the
\* token's sub and whose id is the token's user_id; a token whose user has
\* since changed the email address is rejected by both
C11_TokenResolves ==
    [][\A r \in Req : Answered(r) =>
          LET t == req'[r].arg.token
          IN /\ req'[r].resp = "OK" =>
                  /\ t.exp > now
                  /\ \E u \in users : u.email = t.sub /\ u.id = t.user_id
             /\ (\E u \in users : u.id = t.user_id /\ u.email # t.sub) =>
                  req'[r].resp = "AuthError"]_vars

\* both endpoints have rejected an unexpired token issued to a user who has
\* changed the email address since
C11_Witness ==
    \E r1 \in Req, r2 \in Req :
        /\ req[r1].op = "get_current_user_info" /\ req[r1].pc = "done"
        /\ req[r2].op = "refresh_token" /\ req[r2].pc = "done"
        /\ \A r \in {r1, r2} :
              /\ req[r].resp = "AuthError"
              /\ req[r].arg.token \in tokens
              /\ req[r].arg.token.exp > now
              /\ \E u \in users : u.id = req[r].arg.token.user_id
                                  /\ u.email # req[r].arg.token.sub

\* C12: setStatus changes an order's status only when the actor's role is
\* vendor or admin and the new status is one of the six enumerated; a call by
\* a customer fails with ForbiddenError, a call by a vendor or admin with a
\* status outside the set fails with ValidationError, and neither changes an
\* order; on success the order's status becomes the new status whatever it
\* was before, and no other order changes
C12_SetStatus ==
    [][\A r \in Req :
          /\ \A u \in users, id \in 1..MaxStatusOrders, st \in StatusChoices :
                update_order_status(r, u, id, st) =>
                   /\ orders' = orders
                   /\ IF u.role \notin {"vendor", "admin"}
                      THEN req'[r].pc = "done" /\ req'[r].resp = "ForbiddenError"
                      ELSE IF st \notin valid_statuses
                      THEN req'[r].pc = "done" /\ req'[r].resp = "ValidationError"
                      ELSE req'[r].pc = "update"
          /\ Steps(r, "update_order_status", "update") =>
                /\ req[r].cur.role \in {"vendor", "admin"}
                /\ req[r].arg.status \in valid_statuses
                /\ orders' = {IF o.id = req[r].arg.order_id
                              THEN [o EXCEPT !.status = req[r].arg.status] ELSE o :
                                 o \in orders}
                /\ \A o \in orders : o.id # req[r].arg.order_id => o \in orders'
                /\ req'[r].resp = "OK" =>
                      \E o \in orders' : o.id = req[r].arg.order_id
                                         /\ o.status = req[r].arg.status]_vars

\* a vendor's call has set the status of one order to shipped while the other
\* order is in created, and a customer's call was refused
C12_Witness ==
    /\ \E r \in Req : req[r].op = "update_order_status" /\ req[r].pc = "done"
                      /\ req[r].resp = "OK"
    /\ \E r \in Req : req[r].op = "update_order_status" /\ req[r].pc = "done"
                      /\ req[r].resp = "ForbiddenError"
    /\ \E o1 \in orders, o2 \in orders :
          o1.id # o2.id /\ o1.status = "shipped" /\ o2.status = "created"

\* the handlers that read or write cart lines
CartOps == {"get_cart", "add_to_cart", "update_cart_item", "remove_from_cart",
            "create_payment", "execute_payment"}

\* C13: no cart operation of a user reads or changes a cart line of another
\* user: getCart returns only the caller's lines, updateItem and removeItem
\* on a line of another user fail with NotFoundError, and no step of a cart
\* operation, checkout or executePayment changes, deletes or inserts a line
\* of a user other than the caller
C13_CartIsolation ==
    [][\A r \in Req :
          /\ \A u \in users : get_cart(r, u) =>
                \A it \in req'[r].loc.items :
                    \E ci \in cart_items : ci.id = it.id /\ ci.user_id = u.id
                                           /\ ci.quantity = it.quantity
          /\ req[r].op \in {"update_cart_item", "remove_from_cart"}
             /\ req[r].pc = "select" /\ req'[r] # req[r]
             /\ (\E ci \in cart_items : ci.id = req[r].arg.item_id
                                         /\ ci.user_id # req[r].cur.id) =>
                req'[r].pc = "done" /\ req'[r].resp = "NotFoundError"
          /\ req[r].op \in CartOps /\ req[r].pc \notin {"idle", "done"}
             /\ req'[r] # req[r] =>
                /\ \A ci \in cart_items : ci.user_id # req[r].cur.id => ci \in cart_items'
                /\ \A ci \in cart_items' : ci.user_id # req[r].cur.id => ci \in cart_items]_vars

\* the only two lines ever inserted are in the table, one of each user, as
\* inserted, and an updateItem and a removeItem, both asked for a line in the
\* table, were answered with NotFoundError: each was for the other user's line
C13_Witness ==
    /\ next_id.cart_items = 3
    /\ \E c1 \in cart_items, c2 \in cart_items :
          /\ c1.id = 1 /\ c2.id = 2 /\ c1.user_id # c2.user_id
          /\ c1.quantity = 1 /\ c2.quantity = 1
    /\ \E r1 \in Req, r2 \in Req :
          /\ req[r1].op = "update_cart_item" /\ req[r1].pc = "done"
          /\ req[r1].resp = "NotFoundError"
          /\ req[r2].op = "remove_from_cart" /\ req[r2].pc = "done"
          /\ req[r2].resp = "NotFoundError"

\* C14: served one after the other, two addItem calls for the same user and
\* product, from a cart without the product, end with exactly one line for
\* the pair, of quantity q1 + q2: the write of an addItem that finds no line
\* for the pair inserts one line with its quantity, and the write of an
\* addItem that finds a line adds its quantity to the line's current
\* quantity and inserts nothing
C14_AddMerges ==
    [][\A r \in Req : Steps(r, "add_to_cart", "write") =>
          LET q == req[r]
              mine == {ci \in cart_items : ci.user_id = q.cur.id
                                           /\ ci.product_id = q.arg.product_id}
          IN IF mine = {}
             THEN \E ci \in cart_items' :
                     /\ ci \notin cart_items /\ cart_items' = cart_items \cup {ci}
                     /\ ci.user_id = q.cur.id /\ ci.product_id = q.arg.product_id
                     /\ ci.quantity = q.arg.quantity
             ELSE /\ Cardinality(mine) = 1
                  /\ next_id' = next_id
                  /\ cart_items' = (cart_items \ mine) \cup
                        {[ci EXCEPT !.quantity = @ + q.arg.quantity] : ci \in mine}]_vars

\* an addItem on an existing line has answered: the one line ever inserted
\* holds the quantities added together, 3 (1 + 2, 2 + 1 or 1 + 1 + 1)
C14_Witness ==
    /\ \E r \in Req : req[r].op = "add_to_cart" /\ req[r].pc = "done" /\ req[r].resp = "OK"
    /\ next_id.cart_items = 2
    /\ \E ci \in cart_items : ci.id = 1 /\ ci.quantity = 3

\* C15: every stored user's role is one of customer, vendor, admin; a signup
\* request carrying another role value never results in a stored user with
\* that role
C15_RolesValid == \A u \in users : u.role \in UserRole

\* a product whose row says is_active = false
Deleted(product_id) == product_id \in DOMAIN products /\ ~products[product_id].is_active

\* C16: once a product is soft-deleted, every operation that reads products
\* treats it as absent: the lookup answers NotFoundError and the listing
\* leaves it out, addItem for it fails with NotFoundError, and getCart and
\* checkout neither price nor order it; the row itself is never removed
C16_DeletedIsAbsent ==
    [][/\ DOMAIN products' = DOMAIN products
       /\ \A r \in Req :
          /\ \A p \in ProductIds : get_product(r, p) /\ Deleted(p) =>
                req'[r].resp = "NotFoundError"
          /\ get_products(r) => \A p \in req'[r].loc.products : ~Deleted(p)
          /\ Steps(r, "add_to_cart", "product") /\ Deleted(req[r].arg.product_id) =>
                req'[r].pc = "done" /\ req'[r].resp = "NotFoundError"
          /\ \A u \in users : get_cart(r, u) =>
                \A it \in req'[r].loc.items : ~Deleted(it.product_id)
          /\ Steps(r, "create_payment", "cart") /\ req'[r].pc # "done" =>
                \A it \in req'[r].loc.cart_items : ~Deleted(it.product_id)]_vars

\* C17: every cart line has quantity >= 1, whatever addItem and updateItem
\* calls were made (addItem with a zero or negative quantity included), and
\* so has every order item
C17_PositiveQuantities ==
    /\ \A ci \in cart_items : ci.quantity >= 1
    /\ \A oi \in order_items : oi.quantity >= 1

====
